---- MODULE Spec2Model ----
(***************************************************************************)
(* Route search engine of the Taco Bell 50K planner                        *)
(* (src/lib/routeFinder.ts, the greedy nearest-neighbour version at lines  *)
(* 658-1295): findTacoBells, generateCandidateRoutes, scoreRoute and the   *)
(* orchestrator findOptimalRoute with its Directions-API verification.     *)
(*                                                                         *)
(* Numbers.  Distances are integer metres.  haversineDistance is a table   *)
(* of the formula's values on five sample coordinates.  Scores are kept in *)
(* fixed point, one unit = 0.01 km; Infinity is a sentinel.                *)
(***************************************************************************)
EXTENDS Integers, Sequences, FiniteSets, TLC

VARIABLES
    config,           \* RouteFinderConfig passed to findOptimalRoute
    onProgress,       \* whether the caller passed the onProgress callback
    pair,             \* Null for one invocation; else which of two, and the first
    scored,           \* Null, or the arguments and values of scoreRoute calls
    hook,             \* Null, or the state of one useRoutePlanner instance
    modal,            \* Null, or the state of one AutoRoutePlannerModal
    pc,               \* position of the one findOptimalRoute invocation
    places,           \* what searchNearbyPlaces returned, Null before
    allTacoBells,     \* result of findTacoBells (+ start), sequence of placeIds
    nStops,           \* loop variable of the per-stop-count generation loop
    iter,             \* loop variable of generateCandidateRoutes
    routes,           \* generateCandidateRoutes: accepted candidates so far
    seenRoutes,       \* generateCandidateRoutes: signatures seen so far
    candidateRoutes,  \* candidates merged over the stop counts
    topCandidates,    \* candidateRoutes.slice(0, 5)
    i,                \* index of the verification loop (1-based)
    apiCallCount,     \* counter compared against maxApiCalls
    bestRoute,        \* best verified candidate or Null
    bestActualDistance,
    bestRouteIndex,
    progress,         \* notifications handed to onProgress, in order
    result,           \* the RouteFinderResult returned, NoResult before
    oracleLog,        \* history: one entry per calculateRoute invocation
    lookupCalls,      \* history: number of searchNearbyPlaces invocations
    error             \* the value caught by the catch block, Null before

vars == << config, onProgress, pair, scored, hook, modal, pc, places, allTacoBells, nStops, iter, routes, seenRoutes,
           candidateRoutes, topCandidates, i, apiCallCount, bestRoute,
           bestActualDistance, bestRouteIndex, progress, result, oracleLog,
           lookupCalls, error >>

-----------------------------------------------------------------------------
(* Program constants *)

\* const targetKm = 50
targetKm == 50
\* config.maxApiCalls || 50
DefaultMaxApiCalls == 50
\* candidateRoutes.slice(0, 5)
TopN == 5
\* distance <= 24140 in the nearby filter of generateCandidateRoutes
NearbyRadiusMeters == 24140
\* roadDistanceMultiplier = 1.18, as hundredths
RoadMultiplier100 == 118
\* targetKm / 1.18 * 0.9: the conservative factor, as hundredths
Conservative100 == 90
\* targetKm * 1.1: the too-long tolerance, as hundredths
Tolerance100 == 110
\* Math.min(3, candidates.length)
TopK == 3
\* scoreRoute(route, targetKm, 0.5, 0.2): the weights passed, as tenths
LoopPenaltyWeight10 == 5
SpacingVarianceWeight10 == 2
\* Math.random() picks are weighted 0.7 / 0.3: 0.7 * distance + 0.3 * balance
DistanceWeight10 == 7
BalanceWeight10 == 3

(* Bounds of the model *)

\* iterations of generateCandidateRoutes explored per stop count (the call
\* passes 200; every list reachable in fewer attempts is reachable in 200,
\* the remaining attempts repeating signatures already seen)
Iterations == 3

Infinity == 1000000000
Null == [null |-> TRUE]
NoResult == [none |-> TRUE]

-----------------------------------------------------------------------------
(* Sample data *)

startTacoBell == "S"

\* placeIds of the sample stops
PlaceIds == {"S", "A", "B", "C", "F"}

\* haversineDistance on the sample coordinates, rounded to 10 m:
\* S (34.0000,-118.0000)  A (34.1270,-118.0000)  B (34.0634,-117.8673)
\* C (34.0733,-117.9587)  F (33.7302,-118.0000)
HaversineTable ==
    [S |-> [S |-> 0,     A |-> 14120, B |-> 14110, C |-> 9000,  F |-> 30000],
     A |-> [S |-> 14120, A |-> 0,     B |-> 14120, C |-> 7080,  F |-> 44120],
     B |-> [S |-> 14110, A |-> 14120, B |-> 0,     C |-> 8490,  F |-> 39020],
     C |-> [S |-> 9000,  A |-> 7080,  B |-> 8490,  C |-> 0,     F |-> 38340],
     F |-> [S |-> 30000, A |-> 44120, B |-> 39020, C |-> 38340, F |-> 0]]

haversineDistance(a, b) == HaversineTable[a][b]

-----------------------------------------------------------------------------
(* Arithmetic helpers *)

Abs(x) == IF x < 0 THEN -x ELSE x
Min(a, b) == IF a < b THEN a ELSE b
Range(s) == {s[k] : k \in 1..Len(s)}

RECURSIVE SumSeq(_)
SumSeq(s) == IF s = <<>> THEN 0 ELSE Head(s) + SumSeq(Tail(s))

\* floor of the square root, by bisection on lo <= r < hi
RECURSIVE IsqrtBetween(_, _, _)
IsqrtBetween(x, lo, hi) ==
    IF hi - lo <= 1 THEN lo
    ELSE LET mid == (lo + hi) \div 2
         IN  IF mid * mid <= x THEN IsqrtBetween(x, mid, hi)
             ELSE IsqrtBetween(x, lo, mid)

Isqrt(x) == IsqrtBetween(x, 0, 46341)

\* Array.prototype.sort with a comparator a.key - b.key: ascending and
\* stable.  Elements are records with an integer field key.  The element
\* at position k moves behind every element with a smaller key and every
\* earlier element with the same key.
sorted(t) ==
    LET before(a, b) ==
            t[a].key < t[b].key \/ (t[a].key = t[b].key /\ a < b)
        rank(k) == Cardinality({j \in 1..Len(t) : before(j, k)}) + 1
    IN  [p \in 1..Len(t) |-> t[CHOOSE k \in 1..Len(t) : rank(k) = p]]

\* the argument is evaluated once, then sorted
StableSort(s) ==
    CHOOSE r \in {sorted(t) : t \in {SubSeq(s, 1, Len(s))}} : TRUE

\* all orders of a sequence (duplicates of an element kept)
Shuffles(s) ==
    {[k \in 1..Len(s) |-> s[p[k]]] :
        p \in {q \in [1..Len(s) -> 1..Len(s)] :
                    \A a, b \in 1..Len(s) : a # b => q[a] # q[b]}}

-----------------------------------------------------------------------------
(* Route metrics: routeDistance, loopnessPenalty,                          *)
(* calculateSegmentSpacingVariance, scoreRoute                             *)

\* the haversine length of each leg of a route
segmentDistances(route) ==
    [k \in 1..(Len(route) - 1) |-> haversineDistance(route[k], route[k + 1])]

routeDistance(route) ==
    IF Len(route) < 2 THEN 0 ELSE SumSeq(segmentDistances(route))

loopnessPenalty(route) ==
    IF Len(route) < 2 THEN Infinity
    ELSE haversineDistance(route[1], route[Len(route)])

\* the body of calculateSegmentSpacingVariance once segmentDistances is
\* filled: (stdDev / mean) * 1000, returned in hundredths.  With n legs d
\* of sum s, stdDev / mean = sqrt(n * sum(d^2) - s^2) / s.  Legs are taken
\* in units of 10 m, the resolution of the table.
spacingVarianceOf(legs) ==
    LET d  == [k \in 1..Len(legs) |-> legs[k] \div 10]
        n  == Len(d)
        s  == SumSeq(d)
        sq == SumSeq([k \in 1..n |-> d[k] * d[k]])
    IN  IF s > 0 THEN (100000 * Isqrt(n * sq - s * s)) \div s
        ELSE Infinity

calculateSegmentSpacingVariance(route) ==
    IF Len(route) < 2 THEN Infinity
    ELSE spacingVarianceOf(segmentDistances(route))

\* variant: uneven spacing lowers the score
combinedScoreRewardingSpread(haversineDist, loopPenalty, spacingVariance, targetRoadKm, loopPenaltyWeight, spacingVarianceWeight) ==
    IF loopPenalty = Infinity \/ spacingVariance = Infinity
    THEN Infinity
    ELSE Abs(haversineDist * RoadMultiplier100 - targetRoadKm * 100000)
             \div 1000
         + (loopPenaltyWeight * loopPenalty) \div 100
         - (spacingVarianceWeight * spacingVariance) \div 10

\* the score computed from the three measures, in units of 0.01 km; the
\* weights are tenths.
\*   distanceDiff = |haversineKm * 1.18 - targetRoadKm|
\*   score = distanceDiff + w1 * loopPenalty (km) + w2 * spacingVariance
combinedScore(haversineDist, loopPenalty, spacingVariance, targetRoadKm, loopPenaltyWeight, spacingVarianceWeight) ==
    IF loopPenalty = Infinity \/ spacingVariance = Infinity
    THEN Infinity
    ELSE Abs(haversineDist * RoadMultiplier100 - targetRoadKm * 100000)
             \div 1000
         + (loopPenaltyWeight * loopPenalty) \div 100
         + (spacingVarianceWeight * spacingVariance) \div 10

scoreRoute(route, targetRoadKm, loopPenaltyWeight, spacingVarianceWeight) ==
    [totalDistance |-> routeDistance(route),
     score |-> combinedScore(routeDistance(route), loopnessPenalty(route),
                             calculateSegmentSpacingVariance(route),
                             targetRoadKm, loopPenaltyWeight,
                             spacingVarianceWeight)]

\* scoreRoute on a closed loop whose legs have these haversine lengths:
\* routeDistance is their sum, and loopnessPenalty is the distance from
\* the start to itself, 0
scoreClosedLoop(legs, targetRoadKm, loopPenaltyWeight, spacingVarianceWeight) ==
    [totalDistance |-> SumSeq(legs),
     score |-> combinedScore(SumSeq(legs), 0, spacingVarianceOf(legs),
                             targetRoadKm, loopPenaltyWeight,
                             spacingVarianceWeight)]

-----------------------------------------------------------------------------
(* generateCandidateRoutes *)

\* allTacoBells.filter(distance <= 24140 && tb.placeId !== start.placeId)
nearbyOf(start, tacoBells) ==
    SelectSeq(tacoBells,
              LAMBDA tb : haversineDistance(start, tb) <= NearbyRadiusMeters
                          /\ tb # start)

\* 0.7 * distance / T + 0.3 * |distance - T| / T with the target leg
\* T = targetKm / 1.18 * 0.9 / n * 1000 metres, multiplied by the positive
\* constant 10 * 118 * n * T so that it is an integer with the same order.
balanceScore(distance, km, n) ==
    DistanceWeight10 * RoadMultiplier100 * n * distance
    + BalanceWeight10 * Abs(RoadMultiplier100 * n * distance
                              - km * Conservative100 * 1000)

\* the candidates of one step of the while loop after both sorts: by
\* distance, then (stably) by the combined score.  The list sorted by
\* distance is computed once and then sorted again.
sortedCandidates(route, shuffled, km, n) ==
    LET last    == route[Len(route)]
        unused  == SelectSeq(shuffled, LAMBDA c : c \notin Range(route))
        byDist  == StableSort([k \in 1..Len(unused) |->
                       [tb |-> unused[k],
                        key |-> haversineDistance(last, unused[k])]])
        rescored(s) == [k \in 1..Len(s) |->
                          [tb |-> s[k].tb,
                           key |-> balanceScore(s[k].key, km, n)]]
    IN  CHOOSE r \in {StableSort(rescored(s)) : s \in {byDist}} : TRUE

\* the routes the while loop can build from `route`: at each step
\* candidates[0], or candidates[randomIndex] with randomIndex < min(3, length)
\* (candidates is computed once per step of the loop)
RECURSIVE buildRoutes(_, _, _, _)
buildRoutes(route, shuffled, km, n) ==
    IF Len(route) >= n THEN {route}
    ELSE UNION {IF Len(candidates) = 0 THEN {route}
                ELSE UNION {buildRoutes(Append(route, tb), shuffled, km, n) :
                               tb \in {candidates[j].tb :
                                          j \in 1..Min(TopK, Len(candidates))}} :
                   candidates \in {sortedCandidates(route, shuffled, km, n)}}

\* if (route.length > 1 && last.placeId !== start.placeId) route.push(start)
closeLoop(route, start) ==
    IF Len(route) > 1 /\ route[Len(route)] # start
    THEN Append(route, start) ELSE route

\* route.slice(1, -1).map(placeId).sort().join(','): the interior
\* identifiers are pairwise different, so the sorted list is their set
routeSignature(route) == Range(SubSeq(route, 2, Len(route) - 1))

\* estimatedRoadKm > targetKm * 1.1
tooLong(route, km) ==
    routeDistance(route) * RoadMultiplier100 > km * Tolerance100 * 1000

\* every closed route one iteration of the for loop can produce
attempts(start, nearby, km, n) ==
    UNION {{closeLoop(r, start) : r \in buildRoutes(<< start >>, sh, km, n)} :
              sh \in Shuffles(nearby)}

\* the RouteCandidate pushed for an accepted route
candidateOf(route, km) ==
    LET sc == scoreRoute(route, km, LoopPenaltyWeight10, SpacingVarianceWeight10)
    IN  [stops |-> route, totalDistance |-> sc.totalDistance, score |-> sc.score]

\* variant: the comparator reversed, highest score first
sortByScoreDescending(rs) ==
    LET keyed == StableSort([k \in 1..Len(rs) |->
                                [c |-> rs[k], key |-> 0 - rs[k].score]])
    IN  [k \in 1..Len(rs) |-> keyed[k].c]

\* routes.sort((a, b) => a.score - b.score)
sortByScore(rs) ==
    LET keyed == StableSort([k \in 1..Len(rs) |->
                                [c |-> rs[k], key |-> rs[k].score]])
    IN  [k \in 1..Len(rs) |-> keyed[k].c]

-----------------------------------------------------------------------------
(* Inputs of one invocation *)

\* RouteFinderConfig values tried.  maxApiCalls = 0 stands for the field
\* being absent (config.maxApiCalls || 50 reads both as 50).
\* searchRadiusMiles only parameterises the external lookup.  The type
\* admits any numbers: << 3, 2 >> is a config whose minimum stop count
\* exceeds its maximum.
Configs ==
    {[minDistanceMeters |-> 45000, maxDistanceMeters |-> 55000,
      minTacoBells |-> mm[1], maxTacoBells |-> mm[2], maxApiCalls |-> b] :
        mm \in {<< 1, 1 >>, << 2, 3 >>, << 3, 3 >>, << 3, 2 >>}, b \in {0, 2}}

\* a result of searchNearbyPlaces: place_id and whether the place passes the
\* type / name / geometry test of findTacoBells
Place(id, ok) == [place_id |-> id, isTacoBell |-> ok]

LookupResults ==
    { << Place("A", TRUE), Place("B", TRUE), Place("C", TRUE) >>,
      << Place("A", TRUE), Place("B", FALSE) >>,
      << Place("S", TRUE), Place("A", TRUE), Place("A", TRUE) >>,
      << Place("A", TRUE), Place("F", TRUE), Place("C", FALSE) >>,
      << Place("S", TRUE), Place("F", TRUE) >>,
      << >> }

\* what calculateRoute can do: throw, or return a DirectionsResponse whose
\* routes list is empty or holds one route with these leg distances
Thrown == [thrown |-> TRUE]
Directions(legs) == [routes |-> << [legs |-> legs] >>]
NoRoutes == [routes |-> << >>]

OracleLegs ==
    { << 23000, 23000 >>, << 25000, 26000 >>, << 30000, 30000 >> }

OracleResponses == {NoRoutes} \cup {Directions(l) : l \in OracleLegs}

\* new Error(message): a thrown value that is an instance of Error
JsError(message) == [isError |-> TRUE, message |-> message]

\* messages of the errors thrown.  searchNearbyPlaces throws with the error
\* text of the response, with the status of the payload, or lets the
\* TypeError of fetch through.
PlacesApiError == << "Places API error" >>
PlacesStatusError == << "Places API returned status" >>
FetchError == << "Failed to fetch" >>
LookupErrors ==
    {JsError(m) : m \in {PlacesApiError, PlacesStatusError, FetchError}}
NotEnoughError(found, need) == << "Not enough Taco Bells found", found, need >>
NoCandidatesError == << "No candidate routes generated" >>

-----------------------------------------------------------------------------
(* findOptimalRoute *)

\* the locals of an invocation that has not run yet
Fresh ==
    /\ pc = "start"
    /\ places = Null
    /\ allTacoBells = << >>
    /\ nStops = 0
    /\ iter = 0
    /\ routes = << >>
    /\ seenRoutes = {}
    /\ candidateRoutes = << >>
    /\ topCandidates = << >>
    /\ i = 0
    /\ apiCallCount = 0
    /\ bestRoute = Null
    /\ bestActualDistance = Infinity
    /\ bestRouteIndex = -1
    /\ progress = << >>
    /\ result = NoResult
    /\ oracleLog = << >>
    /\ lookupCalls = 0
    /\ error = Null

\* one invocation; both callers in the repository pass onProgress
Init ==
    /\ config \in Configs
    /\ onProgress = TRUE
    /\ pair = Null
    /\ scored = Null
    /\ hook = Null
    /\ modal = Null
    /\ Fresh

\* const maxApiCalls = config.maxApiCalls || 50
maxApiCalls(cfg) ==
    IF cfg.maxApiCalls = 0 THEN DefaultMaxApiCalls ELSE cfg.maxApiCalls

Notify(status, message) == [status |-> status, message |-> message]

\* if (onProgress) { onProgress(notification) }
Report(notification) ==
    progress' = IF onProgress THEN Append(progress, notification) ELSE progress

\* error instanceof Error ? error.message : 'Unknown error occurred'
errorMessageOf(e) ==
    IF e.isError THEN e.message ELSE << "Unknown error occurred" >>

\* variant: the catch block returns the failure without notifying
FailWithoutNotification(e) ==
    /\ error' = e
    /\ progress' = progress
    /\ result' = [success |-> FALSE, error |-> errorMessageOf(e)]
    /\ pc' = "done"

\* the catch block of findOptimalRoute, entered with the value thrown
Fail(e) ==
    /\ error' = e
    /\ Report(Notify("error", errorMessageOf(e)))
    /\ result' = [success |-> FALSE, error |-> errorMessageOf(e)]
    /\ pc' = "done"

\* findTacoBells up to its await of searchNearbyPlaces
FindTacoBellsCall ==
    /\ pc = "start"
    /\ Report(Notify("searching_tacobells", << "Searching" >>))
    /\ lookupCalls' = lookupCalls + 1
    /\ pc' = "searching"
    /\ UNCHANGED << config, onProgress, pair, scored, hook, modal,
                    places, allTacoBells, nStops, iter, routes, seenRoutes,
                    candidateRoutes, topCandidates, i, apiCallCount, bestRoute,
                    bestActualDistance, bestRouteIndex, result, oracleLog,
                    error >>

\* variant: a failed lookup is tried once more before the error is passed on
SearchNearbyPlacesRetries ==
    /\ pc = "searching"
    /\ IF lookupCalls < 2
       THEN /\ pc' = "start"
            /\ UNCHANGED << progress, result, error >>
       ELSE \E e \in LookupErrors : Fail(e)
    /\ UNCHANGED << config, onProgress, pair, scored, hook, modal,
                    places, allTacoBells, nStops, iter, routes, seenRoutes,
                    candidateRoutes, topCandidates, i, apiCallCount, bestRoute,
                    bestActualDistance, bestRouteIndex, oracleLog, lookupCalls >>

\* searchNearbyPlaces throws: the error reaches the catch of findOptimalRoute
SearchNearbyPlacesFails ==
    /\ pc = "searching"
    /\ \E e \in LookupErrors : Fail(e)
    /\ UNCHANGED << config, onProgress, pair, scored, hook, modal,
                    places, allTacoBells, nStops, iter, routes, seenRoutes,
                    candidateRoutes, topCandidates, i, apiCallCount, bestRoute,
                    bestActualDistance, bestRouteIndex, oracleLog, lookupCalls >>

\* variant: the type / name test left out, every place is kept
tacoBellsOfUnfiltered(found) ==
    [k \in 1..Len(found) |-> found[k].place_id]

\* the loop of findTacoBells over the places: one TacoBellLocation pushed per
\* place that passes the test, with the place's id (getPlaceDetails only
\* supplies the address; its failure is caught per place)
tacoBellsOf(found) ==
    LET kept == SelectSeq(found, LAMBDA pl : pl.isTacoBell)
    IN  [k \in 1..Len(kept) |-> kept[k].place_id]

FindTacoBellsReturns ==
    /\ pc = "searching"
    /\ \E found \in LookupResults :
          /\ places' = found
          /\ allTacoBells' = tacoBellsOf(found)
          /\ Report(Notify("searching_tacobells",
                        << "Found", Len(tacoBellsOf(found)) >>))
    /\ pc' = "found"
    /\ UNCHANGED << config, onProgress, pair, scored, hook, modal,
                    nStops, iter, routes, seenRoutes, candidateRoutes,
                    topCandidates, i, apiCallCount, bestRoute,
                    bestActualDistance, bestRouteIndex, result, oracleLog,
                    lookupCalls, error >>

\* if (allTacoBells.length < config.minTacoBells) throw
NotEnoughTacoBells ==
    /\ pc = "found"
    /\ Len(allTacoBells) < config.minTacoBells
    /\ Fail(JsError(NotEnoughError(Len(allTacoBells), config.minTacoBells)))
    /\ UNCHANGED << config, onProgress, pair, scored, hook, modal,
                    places, allTacoBells, nStops, iter, routes, seenRoutes,
                    candidateRoutes, topCandidates, i, apiCallCount, bestRoute,
                    bestActualDistance, bestRouteIndex, oracleLog, lookupCalls >>

\* variant: the first finding_route notification is sent without the
\* test of onProgress; calling the absent callback throws a TypeError
StartGenerationUnguarded ==
    /\ pc = "found"
    /\ Len(allTacoBells) >= config.minTacoBells
    /\ IF onProgress
       THEN /\ allTacoBells' = IF startTacoBell \in Range(allTacoBells)
                               THEN allTacoBells
                               ELSE Append(allTacoBells, startTacoBell)
            /\ Report(Notify("finding_route", << "Generating" >>))
            /\ nStops' = config.minTacoBells
            /\ pc' = "generating"
            /\ UNCHANGED << result, error >>
       ELSE /\ allTacoBells' = IF startTacoBell \in Range(allTacoBells)
                               THEN allTacoBells
                               ELSE Append(allTacoBells, startTacoBell)
            /\ Fail(JsError(<< "onProgress is not a function" >>))
            /\ UNCHANGED nStops
    /\ UNCHANGED << config, onProgress, pair, scored, hook, modal,
                    places, iter, routes, seenRoutes, candidateRoutes,
                    topCandidates, i, apiCallCount, bestRoute,
                    bestActualDistance, bestRouteIndex, oracleLog,
                    lookupCalls >>

\* the start is pushed when absent; first finding_route notification
StartGeneration ==
    /\ pc = "found"
    /\ Len(allTacoBells) >= config.minTacoBells
    /\ allTacoBells' = IF startTacoBell \in Range(allTacoBells)
                       THEN allTacoBells
                       ELSE Append(allTacoBells, startTacoBell)
    /\ Report(Notify("finding_route", << "Generating" >>))
    /\ nStops' = config.minTacoBells
    /\ pc' = "generating"
    /\ UNCHANGED << config, onProgress, pair, scored, hook, modal,
                    places, iter, routes, seenRoutes, candidateRoutes,
                    topCandidates, i, apiCallCount, bestRoute,
                    bestActualDistance, bestRouteIndex, result, oracleLog,
                    lookupCalls, error >>

\* the message of the Error generateCandidateRoutes throws
NotEnoughNearbyError(found, need) == << "Not enough Taco Bells nearby", found, need >>

\* variant: the per-stop-count try / catch left out, so that the generator's
\* error reaches the outer catch and ends the search
GenerateThrowsAborts ==
    /\ pc = "generating"
    /\ nStops <= config.maxTacoBells
    /\ Len(nearbyOf(startTacoBell, allTacoBells)) < nStops - 1
    /\ Fail(JsError(NotEnoughNearbyError(
               Len(nearbyOf(startTacoBell, allTacoBells)), nStops - 1)))
    /\ UNCHANGED << config, onProgress, pair, scored, hook, modal,
                    places, allTacoBells, nStops, iter, routes, seenRoutes,
                    candidateRoutes, topCandidates, i, apiCallCount, bestRoute,
                    bestActualDistance, bestRouteIndex, oracleLog,
                    lookupCalls >>

\* generateCandidateRoutes throws (too few stops nearby); the per-stop-count
\* try / catch of findOptimalRoute logs it and goes on to the next count
GenerateThrows ==
    /\ pc = "generating"
    /\ nStops <= config.maxTacoBells
    /\ Len(nearbyOf(startTacoBell, allTacoBells)) < nStops - 1
    /\ nStops' = nStops + 1
    /\ UNCHANGED << config, onProgress, pair, scored, hook, modal,
                    places, pc, allTacoBells, iter, routes, seenRoutes,
                    candidateRoutes, topCandidates, i, apiCallCount, bestRoute,
                    bestActualDistance, bestRouteIndex, progress, result,
                    oracleLog, lookupCalls, error >>

\* generateCandidateRoutes entered: routes = [], seenRoutes = new Set()
GenerateStart ==
    /\ pc = "generating"
    /\ nStops <= config.maxTacoBells
    /\ Len(nearbyOf(startTacoBell, allTacoBells)) >= nStops - 1
    /\ iter' = 0
    /\ routes' = << >>
    /\ seenRoutes' = {}
    /\ pc' = "iterating"
    /\ UNCHANGED << config, onProgress, pair, scored, hook, modal,
                    places, allTacoBells, nStops, candidateRoutes,
                    topCandidates, i, apiCallCount, bestRoute,
                    bestActualDistance, bestRouteIndex, progress, result,
                    oracleLog, lookupCalls, error >>

\* variant: an attempt whose signature was already seen is not counted
\* (the loop keeps trying until it finds a new route)
GenerateIterationRetries ==
    /\ pc = "iterating"
    /\ iter < Iterations
    /\ \E route \in attempts(startTacoBell,
                             nearbyOf(startTacoBell, allTacoBells),
                             targetKm, nStops) :
          IF routeSignature(route) \in seenRoutes
          THEN UNCHANGED << routes, seenRoutes, iter >>
          ELSE /\ seenRoutes' = seenRoutes \cup {routeSignature(route)}
               /\ routes' = IF tooLong(route, targetKm) THEN routes
                            ELSE Append(routes, candidateOf(route, targetKm))
               /\ iter' = iter + 1
    /\ UNCHANGED << config, onProgress, pair, scored, hook, modal,
                    places, pc, allTacoBells, nStops, candidateRoutes,
                    topCandidates, i, apiCallCount, bestRoute,
                    bestActualDistance, bestRouteIndex, progress, result,
                    oracleLog, lookupCalls, error >>

\* variant: the signature test left out, every attempt that is not too
\* long is pushed
GenerateIterationKeepsDuplicates ==
    /\ pc = "iterating"
    /\ iter < Iterations
    /\ \E route \in attempts(startTacoBell,
                             nearbyOf(startTacoBell, allTacoBells),
                             targetKm, nStops) :
          /\ seenRoutes' = seenRoutes \cup {routeSignature(route)}
          /\ routes' = IF tooLong(route, targetKm) THEN routes
                       ELSE Append(routes, candidateOf(route, targetKm))
    /\ iter' = iter + 1
    /\ UNCHANGED << config, onProgress, pair, scored, hook, modal,
                    places, pc, allTacoBells, nStops, candidateRoutes,
                    topCandidates, i, apiCallCount, bestRoute,
                    bestActualDistance, bestRouteIndex, progress, result,
                    oracleLog, lookupCalls, error >>

\* one iteration of the for loop: shuffle, build, close, deduplicate by
\* signature, drop when too long, score and push
GenerateIteration ==
    /\ pc = "iterating"
    /\ iter < Iterations
    /\ \E route \in attempts(startTacoBell,
                             nearbyOf(startTacoBell, allTacoBells),
                             targetKm, nStops) :
          IF routeSignature(route) \in seenRoutes
          THEN UNCHANGED << routes, seenRoutes >>
          ELSE /\ seenRoutes' = seenRoutes \cup {routeSignature(route)}
               /\ routes' = IF tooLong(route, targetKm) THEN routes
                            ELSE Append(routes, candidateOf(route, targetKm))
    /\ iter' = iter + 1
    /\ UNCHANGED << config, onProgress, pair, scored, hook, modal,
                    places, pc, allTacoBells, nStops, candidateRoutes,
                    topCandidates, i, apiCallCount, bestRoute,
                    bestActualDistance, bestRouteIndex, progress, result,
                    oracleLog, lookupCalls, error >>

\* how findOptimalRoute merges the list returned for one stop count
mergeCandidates(merged, returned) == merged \o returned

\* return routes.sort(...); candidateRoutes.push(...routes); nStops++
\* (the locals of generateCandidateRoutes go out of scope)
GenerateReturn ==
    /\ pc = "iterating"
    /\ iter = Iterations
    /\ candidateRoutes' = mergeCandidates(candidateRoutes, sortByScore(routes))
    /\ nStops' = nStops + 1
    /\ iter' = 0
    /\ routes' = << >>
    /\ seenRoutes' = {}
    /\ pc' = "generating"
    /\ UNCHANGED << config, onProgress, pair, scored, hook, modal,
                    places, allTacoBells,
                    topCandidates, i, apiCallCount, bestRoute,
                    bestActualDistance, bestRouteIndex, progress, result,
                    oracleLog, lookupCalls, error >>

\* variant: every candidate is handed to the verifier
topOfAll(cands) == cands

\* const topCandidates = candidateRoutes.slice(0, 5)
topOf(cands) == SubSeq(cands, 1, Min(TopN, Len(cands)))

\* variant: an empty candidate list is returned as an empty success
NoCandidatesSucceeds ==
    /\ pc = "generating"
    /\ nStops > config.maxTacoBells
    /\ Len(topOf(candidateRoutes)) = 0
    /\ Report(Notify("complete", << "Route found" >>))
    /\ result' = [success |-> TRUE, route |-> << >>, totalDistance |-> 0]
    /\ pc' = "done"
    /\ UNCHANGED << config, onProgress, pair, scored, hook, modal,
                    places, allTacoBells, nStops, iter, routes, seenRoutes,
                    candidateRoutes, topCandidates, i, apiCallCount, bestRoute,
                    bestActualDistance, bestRouteIndex, oracleLog, lookupCalls,
                    error >>

\* if (topCandidates.length === 0) throw
NoCandidates ==
    /\ pc = "generating"
    /\ nStops > config.maxTacoBells
    /\ Len(topOf(candidateRoutes)) = 0
    /\ Fail(JsError(NoCandidatesError))
    /\ UNCHANGED << config, onProgress, pair, scored, hook, modal,
                    places, allTacoBells, nStops, iter, routes, seenRoutes,
                    candidateRoutes, topCandidates, i, apiCallCount, bestRoute,
                    bestActualDistance, bestRouteIndex, oracleLog, lookupCalls >>

\* second finding_route notification; the verification loop starts
StartVerification ==
    /\ pc = "generating"
    /\ nStops > config.maxTacoBells
    /\ Len(topOf(candidateRoutes)) > 0
    /\ topCandidates' = topOf(candidateRoutes)
    /\ Report(Notify("finding_route", << "Generated", Len(candidateRoutes) >>))
    /\ i' = 0
    /\ pc' = "verifying"
    /\ UNCHANGED << config, onProgress, pair, scored, hook, modal,
                    places, allTacoBells, nStops, iter, routes, seenRoutes,
                    candidateRoutes, apiCallCount, bestRoute,
                    bestActualDistance, bestRouteIndex, result, oracleLog,
                    lookupCalls, error >>

\* the loop goes on: i < topCandidates.length and the budget check passes
budgetLeft(count, cfg) == count < maxApiCalls(cfg)

canVerify == i < Len(topCandidates) /\ budgetLeft(apiCallCount, config)

\* the request handed to calculateRoute for candidate i: origin,
\* destination and the waypoints candidate.stops.slice(1, -1)
requestOf(candidate) ==
    [origin      |-> candidate.stops[1],
     destination |-> candidate.stops[Len(candidate.stops)],
     waypoints   |-> SubSeq(candidate.stops, 2, Len(candidate.stops) - 1)]

\* variant: the per-candidate try / catch left out, so that a thrown oracle
\* call reaches the outer catch and ends the search
OracleThrowsAborts ==
    /\ pc = "verifying"
    /\ canVerify
    /\ oracleLog' = Append(oracleLog,
           [index |-> i, request |-> requestOf(topCandidates[i + 1]),
            response |-> Thrown])
    /\ Fail(JsError(<< "Directions API error" >>))
    /\ UNCHANGED << config, onProgress, pair, scored, hook, modal,
                    places, allTacoBells, nStops, iter, routes,
                    seenRoutes, candidateRoutes, topCandidates, i,
                    apiCallCount, bestRoute, bestActualDistance,
                    bestRouteIndex, lookupCalls >>

\* calculateRoute throws: caught per candidate, apiCallCount++ not reached
OracleThrows ==
    /\ pc = "verifying"
    /\ canVerify
    /\ oracleLog' = Append(oracleLog,
           [index |-> i, request |-> requestOf(topCandidates[i + 1]),
            response |-> Thrown])
    /\ i' = i + 1
    /\ UNCHANGED << config, onProgress, pair, scored, hook, modal,
                    places, pc, allTacoBells, nStops, iter, routes, seenRoutes,
                    candidateRoutes, topCandidates, apiCallCount, bestRoute,
                    bestActualDistance, bestRouteIndex, progress, result,
                    lookupCalls, error >>

\* directions.routes[0].legs.reduce((sum, leg) => sum + leg.distance.value, 0)
totalDistanceOf(directions) == SumSeq(directions.routes[1].legs)

\* variant: the upper end of the range check left out
isNewBestNoUpperBound(totalDistance, best, bestDistance, cfg) ==
    /\ totalDistance >= cfg.minDistanceMeters
    /\ (totalDistance < bestDistance \/ best = Null)
    /\ LET currentDiff == Abs(totalDistance - targetKm * 1000)
           bestDiff    == IF best # Null
                          THEN Abs(bestDistance - targetKm * 1000)
                          ELSE Infinity
       IN  currentDiff <= bestDiff \/ best = Null

\* the two nested tests that make a verified candidate the new best
isNewBest(totalDistance, best, bestDistance, cfg) ==
    /\ totalDistance >= cfg.minDistanceMeters
    /\ totalDistance <= cfg.maxDistanceMeters
    /\ (totalDistance < bestDistance \/ best = Null)
    /\ LET currentDiff == Abs(totalDistance - targetKm * 1000)
           bestDiff    == IF best # Null
                          THEN Abs(bestDistance - targetKm * 1000)
                          ELSE Infinity
       IN  currentDiff <= bestDiff \/ best = Null

\* calculateRoute returns: apiCallCount++, range check, best selection,
\* progress notification
OracleReturns ==
    /\ pc = "verifying"
    /\ canVerify
    /\ \E directions \in OracleResponses :
          /\ oracleLog' = Append(oracleLog,
                 [index |-> i, request |-> requestOf(topCandidates[i + 1]),
                  response |-> directions])
          /\ IF /\ Len(directions.routes) > 0
                /\ isNewBest(totalDistanceOf(directions), bestRoute,
                             bestActualDistance, config)
             THEN /\ bestRoute' = topCandidates[i + 1]
                  /\ bestActualDistance' = totalDistanceOf(directions)
                  /\ bestRouteIndex' = i
             ELSE UNCHANGED << bestRoute, bestActualDistance, bestRouteIndex >>
    /\ apiCallCount' = apiCallCount + 1
    /\ Report(Notify("finding_route", << "Verifying", apiCallCount + 1 >>))
    /\ i' = i + 1
    /\ UNCHANGED << config, onProgress, pair, scored, hook, modal,
                    places, pc, allTacoBells, nStops, iter, routes, seenRoutes,
                    candidateRoutes, topCandidates, result, lookupCalls,
                    error >>

\* bestRoute.stops.slice(0, -1)
routeWithoutDuplicate(stops) == SubSeq(stops, 1, Len(stops) - 1)

\* Step 4, bestRoute set: the verified route and its oracle distance
ReturnVerified ==
    /\ pc = "verifying"
    /\ ~canVerify
    /\ bestRoute # Null
    /\ Report(Notify("complete", << "Route found", Len(bestRoute.stops) - 1 >>))
    /\ result' = [success |-> TRUE,
                  route |-> routeWithoutDuplicate(bestRoute.stops),
                  totalDistance |-> bestActualDistance]
    /\ pc' = "done"
    /\ UNCHANGED << config, onProgress, pair, scored, hook, modal,
                    places, allTacoBells, nStops, iter, routes, seenRoutes,
                    candidateRoutes, topCandidates, i, apiCallCount, bestRoute,
                    bestActualDistance, bestRouteIndex, oracleLog, lookupCalls,
                    error >>

\* the candidate the fallback returns
bestEstimate(top) == top[1]

\* variant: no fallback, the search fails when nothing was verified
ReturnNoFeasibleRoute ==
    /\ pc = "verifying"
    /\ ~canVerify
    /\ bestRoute = Null
    /\ Fail(JsError(<< "No valid route found" >>))
    /\ UNCHANGED << config, onProgress, pair, scored, hook, modal,
                    places, allTacoBells, nStops, iter, routes,
                    seenRoutes, candidateRoutes, topCandidates, i,
                    apiCallCount, bestRoute, bestActualDistance,
                    bestRouteIndex, oracleLog, lookupCalls >>

\* Step 4, no verified route: topCandidates[0] with its haversine estimate
ReturnEstimated ==
    /\ pc = "verifying"
    /\ ~canVerify
    /\ bestRoute = Null
    /\ Report(Notify("complete",
                  << "Route found (estimated)",
                     Len(bestEstimate(topCandidates).stops) - 1 >>))
    /\ result' = [success |-> TRUE,
                  route |-> routeWithoutDuplicate(bestEstimate(topCandidates).stops),
                  totalDistance |-> bestEstimate(topCandidates).totalDistance]
    /\ pc' = "done"
    /\ UNCHANGED << config, onProgress, pair, scored, hook, modal,
                    places, allTacoBells, nStops, iter, routes, seenRoutes,
                    candidateRoutes, topCandidates, i, apiCallCount, bestRoute,
                    bestActualDistance, bestRouteIndex, oracleLog, lookupCalls,
                    error >>

Next ==
    \/ FindTacoBellsCall
    \/ SearchNearbyPlacesFails
    \/ FindTacoBellsReturns
    \/ NotEnoughTacoBells
    \/ StartGeneration
    \/ GenerateThrows
    \/ GenerateStart
    \/ GenerateIteration
    \/ GenerateReturn
    \/ NoCandidates
    \/ StartVerification
    \/ OracleThrows
    \/ OracleReturns
    \/ ReturnVerified
    \/ ReturnEstimated

Spec == Init /\ [][Next]_vars

\* The invocation is one async function: the event loop runs every
\* continuation that is ready, and every awaited external call
\* (searchNearbyPlaces, getPlaceDetails, calculateRoute) settles.
FairSpec == Spec /\ WF_vars(Next)

-----------------------------------------------------------------------------
(* Two invocations with the same arguments, one after the other: the first *)
(* with onProgress supplied, the second with onProgress omitted.           *)

\* the config of the two invocations
PairConfigs == {cfg \in Configs : /\ cfg.minTacoBells = 3
                                  /\ cfg.maxTacoBells = 3
                                  /\ cfg.maxApiCalls = 2}

PairInit ==
    /\ config \in PairConfigs
    /\ onProgress = TRUE
    /\ pair = [run |-> 1, first |-> Null]
    /\ scored = Null
    /\ hook = Null
    /\ modal = Null
    /\ Fresh

\* what the first invocation saw and did, kept for the comparison
Outcome ==
    [places |-> places, error |-> error, allTacoBells |-> allTacoBells,
     candidateRoutes |-> candidateRoutes, oracleLog |-> oracleLog,
     lookupCalls |-> lookupCalls, result |-> result]

\* the first invocation has returned; the second is called with the same
\* start and config and without onProgress
Restart ==
    /\ pair # Null
    /\ pair.run = 1
    /\ pc = "done"
    /\ pair' = [run |-> 2, first |-> Outcome]
    /\ onProgress' = FALSE
    /\ pc' = "start"
    /\ places' = Null
    /\ allTacoBells' = << >>
    /\ nStops' = 0
    /\ iter' = 0
    /\ routes' = << >>
    /\ seenRoutes' = {}
    /\ candidateRoutes' = << >>
    /\ topCandidates' = << >>
    /\ i' = 0
    /\ apiCallCount' = 0
    /\ bestRoute' = Null
    /\ bestActualDistance' = Infinity
    /\ bestRouteIndex' = -1
    /\ progress' = << >>
    /\ result' = NoResult
    /\ oracleLog' = << >>
    /\ lookupCalls' = 0
    /\ error' = Null
    /\ UNCHANGED << config, scored, hook, modal >>

\* the second invocation meets the environment of the first: the lookup
\* settles the same way, and the k-th oracle call gets the k-th response of
\* the first invocation (any response beyond those).  The values of
\* Math.random are not tied to anything and stay free.
SameEnvironment ==
    (pair # Null /\ pair.run = 2) =>
        /\ places # Null => places = pair.first.places
        /\ error \in LookupErrors => error = pair.first.error
        /\ \A k \in 1..Min(Len(oracleLog), Len(pair.first.oracleLog)) :
              oracleLog[k].response = pair.first.oracleLog[k].response

PairNext ==
    \/ Next /\ SameEnvironment'
    \/ Restart

PairSpec == PairInit /\ [][PairNext]_vars

-----------------------------------------------------------------------------
(* scoreRoute applied to an evenly spaced closed loop that is exactly on   *)
(* target, and to the same loop with one leg doubled and another halved.   *)

\* the longest loop scored, in legs
MaxLegs == 5

\* leg lengths tried, in metres
LegLengths == {10000, 12500, 20000, 25000}

\* spacingVarianceWeight: the default of scoreRoute is 0.3
DefaultSpacingVarianceWeight10 == 3

\* number of legs, their common length, the leg doubled, the leg halved and
\* the weight; kept when 1.18 * total length is a whole number of km, which
\* is then the target
ScoreInputs ==
    {in \in [n : 2..MaxLegs, leg : LegLengths,
             doubled : 1..MaxLegs, halved : 1..MaxLegs,
             weight : {SpacingVarianceWeight10,
                       DefaultSpacingVarianceWeight10}] :
        /\ in.doubled <= in.n /\ in.halved <= in.n
        /\ in.doubled # in.halved
        /\ (in.n * in.leg * RoadMultiplier100) % 100000 = 0}

evenLegs(in) == [k \in 1..in.n |-> in.leg]

unevenLegs(in) ==
    [k \in 1..in.n |-> IF k = in.doubled THEN 2 * in.leg
                       ELSE IF k = in.halved THEN in.leg \div 2
                       ELSE in.leg]

\* the targetRoadKm the even loop meets exactly
exactTargetKm(in) == (in.n * in.leg * RoadMultiplier100) \div 100000

ScoreInit ==
    /\ config \in PairConfigs
    /\ onProgress = TRUE
    /\ pair = Null
    /\ scored \in {[input |-> in, even |-> Null, uneven |-> Null] :
                      in \in ScoreInputs}
    /\ hook = Null
    /\ modal = Null
    /\ Fresh

\* scoreRoute(even loop, target, 0.5, weight)
ScoreEven ==
    /\ scored # Null
    /\ scored.even = Null
    /\ scored' = [scored EXCEPT !.even =
                     scoreClosedLoop(evenLegs(scored.input),
                                     exactTargetKm(scored.input),
                                     LoopPenaltyWeight10,
                                     scored.input.weight)]
    /\ UNCHANGED << config, onProgress, pair, hook, modal, pc, places, allTacoBells,
                    nStops, iter, routes, seenRoutes, candidateRoutes,
                    topCandidates, i, apiCallCount, bestRoute,
                    bestActualDistance, bestRouteIndex, progress, result,
                    oracleLog, lookupCalls, error >>

\* scoreRoute(uneven loop, target, 0.5, weight)
ScoreUneven ==
    /\ scored # Null
    /\ scored.uneven = Null
    /\ scored' = [scored EXCEPT !.uneven =
                     scoreClosedLoop(unevenLegs(scored.input),
                                     exactTargetKm(scored.input),
                                     LoopPenaltyWeight10,
                                     scored.input.weight)]
    /\ UNCHANGED << config, onProgress, pair, hook, modal, pc, places, allTacoBells,
                    nStops, iter, routes, seenRoutes, candidateRoutes,
                    topCandidates, i, apiCallCount, bestRoute,
                    bestActualDistance, bestRouteIndex, progress, result,
                    oracleLog, lookupCalls, error >>

ScoreNext == ScoreEven \/ ScoreUneven

ScoreSpec == ScoreInit /\ [][ScoreNext]_vars

-----------------------------------------------------------------------------
(* useRoutePlanner (src/hooks/useRoutePlanner.ts, lines 1-224): the state  *)
(* of the hook, the callbacks it returns, the recalculate effect and the   *)
(* calculateRoute requests in flight.  State setters are applied at once;  *)
(* the callbacks read the values of the last render (hook.closure) until   *)
(* Render runs.  A RouteData is identified by the request it was computed  *)
(* for.                                                                    *)

\* calculateRoute requests one hook instance makes
MaxCalls == 2

\* waypoint ids one hook instance hands out
MaxWaypointIds == 2

\* the Location values the user picks
Place_P == [address |-> "P"]
Place_Q == [address |-> "Q"]
Locations == {Place_P, Place_Q}

\* the routes handed to loadAutoGeneratedRoute
AutoRoutes == { << Place_P >>, << Place_P, Place_Q >> }

\* everything but the hook is left alone
HookOnly ==
    UNCHANGED << config, onProgress, pair, scored, modal, pc, places,
                 allTacoBells, nStops, iter, routes, seenRoutes,
                 candidateRoutes, topCandidates, i, apiCallCount, bestRoute,
                 bestActualDistance, bestRouteIndex, progress, result,
                 oracleLog, lookupCalls, error >>

Waypoint(id, location, order) == [id |-> id, location |-> location, order |-> order]

\* [...waypoints].sort((a, b) => a.order - b.order).map(wp => wp.location)
waypointLocations(wps) ==
    LET keyed == StableSort([k \in 1..Len(wps) |->
                                [c |-> wps[k], key |-> wps[k].order]])
    IN  [k \in 1..Len(wps) |-> keyed[k].c.location]

\* the arguments of calculateRoute for these points
RouteRequest(start, end, wps) ==
    [startPoint |-> start, endPoint |-> end, waypoints |-> waypointLocations(wps)]

\* filtered.map((wp, index) => ({ ...wp, order: index }))
reindexed(wps) ==
    [k \in 1..Len(wps) |-> Waypoint(wps[k].id, wps[k].location, k - 1)]

\* result.splice(startIndex, 1); result.splice(endIndex, 0, removed)
\* (indices from 0)
moved(wps, startIndex, endIndex) ==
    LET removed == wps[startIndex + 1]
        rest    == SubSeq(wps, 1, startIndex) \o SubSeq(wps, startIndex + 2, Len(wps))
    IN  SubSeq(rest, 1, endIndex) \o << removed >> \o SubSeq(rest, endIndex + 1, Len(rest))

HookInit ==
    /\ config \in PairConfigs
    /\ onProgress = TRUE
    /\ pair = Null
    /\ scored = Null
    /\ modal = Null
    /\ Fresh
    /\ hook = [startPoint |-> Null, endPoint |-> Null, waypoints |-> << >>,
               routeData |-> Null, isCalculating |-> FALSE, error |-> Null,
               closure |-> [startPoint |-> Null, endPoint |-> Null,
                            waypoints |-> << >>],
               changed |-> TRUE, inFlight |-> {}, calls |-> 0, nextId |-> 0]

\* setStartPoint(location), called by the page
SetStartPoint ==
    /\ \E loc \in Locations :
          hook' = [hook EXCEPT !.startPoint = loc, !.changed = TRUE]
    /\ HookOnly

SetEndPoint ==
    /\ \E loc \in Locations :
          hook' = [hook EXCEPT !.endPoint = loc, !.changed = TRUE]
    /\ HookOnly

\* addWaypoint: order is waypoints.length of the render the callback
\* belongs to; the new waypoint is appended to the latest state
AddWaypoint ==
    /\ hook.nextId < MaxWaypointIds
    /\ \E loc \in Locations :
          hook' = [hook EXCEPT
                     !.waypoints = Append(@, Waypoint(hook.nextId, loc,
                                            Len(hook.closure.waypoints))),
                     !.nextId = @ + 1,
                     !.changed = TRUE]
    /\ HookOnly

\* removeWaypoint(id) for a waypoint that is shown
RemoveWaypoint ==
    /\ \E k \in 1..Len(hook.closure.waypoints) :
          hook' = [hook EXCEPT
                     !.waypoints = reindexed(SelectSeq(@,
                         LAMBDA wp : wp.id # hook.closure.waypoints[k].id)),
                     !.changed = TRUE]
    /\ HookOnly

\* reorderWaypoints(startIndex, endIndex) with indices of the list
ReorderWaypoints ==
    /\ \E startIndex, endIndex \in 0..(Len(hook.waypoints) - 1) :
          /\ startIndex # endIndex
          /\ hook' = [hook EXCEPT
                        !.waypoints = reindexed(moved(@, startIndex, endIndex)),
                        !.changed = TRUE]
    /\ HookOnly

ClearRoute ==
    /\ hook' = [hook EXCEPT !.startPoint = Null, !.endPoint = Null,
                            !.waypoints = << >>, !.routeData = Null,
                            !.error = Null, !.changed = TRUE]
    /\ HookOnly

\* loadAutoGeneratedRoute(tacoBells): start = end = tacoBells[0], the rest
\* become the waypoints with order = index
LoadAutoGeneratedRoute ==
    /\ \E tacoBells \in AutoRoutes :
          /\ hook.nextId + Len(tacoBells) - 1 <= MaxWaypointIds
          /\ hook' = [hook EXCEPT
                        !.startPoint = tacoBells[1],
                        !.endPoint = tacoBells[1],
                        !.waypoints =
                            [k \in 1..(Len(tacoBells) - 1) |->
                                Waypoint(hook.nextId + k - 1, tacoBells[k + 1],
                                         k - 1)],
                        !.nextId = @ + Len(tacoBells) - 1,
                        !.changed = TRUE]
    /\ HookOnly

\* a render after startPoint, endPoint or waypoints changed: the callbacks
\* get the new values and the recalculate effect runs; calculateRouteData
\* sets isCalculating, clears error and awaits calculateRoute
Render ==
    /\ hook.changed
    /\ LET seen == [startPoint |-> hook.startPoint,
                    endPoint |-> hook.endPoint,
                    waypoints |-> hook.waypoints]
       IN  IF hook.startPoint # Null /\ hook.endPoint # Null
           THEN /\ hook.calls < MaxCalls
                /\ hook' = [hook EXCEPT
                       !.closure = seen,
                       !.changed = FALSE,
                       !.isCalculating = TRUE,
                       !.error = Null,
                       !.calls = @ + 1,
                       !.inFlight = @ \cup
                           {[n |-> hook.calls + 1,
                             request |-> RouteRequest(hook.startPoint,
                                             hook.endPoint, hook.waypoints)]}]
           ELSE hook' = [hook EXCEPT !.closure = seen, !.changed = FALSE,
                                     !.routeData = Null]
    /\ HookOnly

\* calculateRoute resolves: setRouteData, then finally
CalculateRouteResolves ==
    /\ \E call \in hook.inFlight :
          hook' = [hook EXCEPT !.routeData = call.request,
                               !.isCalculating = FALSE,
                               !.inFlight = @ \ {call}]
    /\ HookOnly

\* calculateRoute rejects (or returns no route): catch, then finally
CalculateRouteFails ==
    /\ \E call \in hook.inFlight :
          hook' = [hook EXCEPT !.error = << "Failed to calculate route" >>,
                               !.routeData = Null,
                               !.isCalculating = FALSE,
                               !.inFlight = @ \ {call}]
    /\ HookOnly

HookNext ==
    \/ SetStartPoint
    \/ SetEndPoint
    \/ AddWaypoint
    \/ RemoveWaypoint
    \/ ReorderWaypoints
    \/ ClearRoute
    \/ LoadAutoGeneratedRoute
    \/ Render
    \/ CalculateRouteResolves
    \/ CalculateRouteFails

HookSpec == HookInit /\ [][HookNext]_vars

(***************************************************************************)
(* AutoRoutePlannerModal (src/components/AutoRoutePlannerModal.tsx)        *)
(*                                                                         *)
(* modal.isOpen is the prop of the parent, which opens the modal and sets  *)
(* isOpen to false when onClose is called.  The other fields are the state *)
(* of the component; the Taco Bell counts stay at their defaults, for      *)
(* which configError is null.  modal.pending is the location whose         *)
(* validation by the selection effect has not settled (Null: none, or      *)
(* cancelled by the cleanup of the effect).  modal.searches holds the      *)
(* handleSearch calls that have not returned: their stage, and whether the *)
(* modal has been closed since the call started.  routeFound, onCloseCalls *)
(* record the calls a search made to the props, lateRouteFound and         *)
(* lateOnClose those made by a search the modal was closed under.          *)
(***************************************************************************)
MaxSearches == 2

\* the parent's onClose: isOpen becomes false and the reset effect runs
closed(m) ==
    [m EXCEPT !.isOpen = FALSE, !.selectedLocation = Null,
              !.isSearching = FALSE, !.progress = Null, !.error = Null,
              !.isValidTacoBell = FALSE, !.pending = Null,
              !.searches = { [s EXCEPT !.closedSince = TRUE] : s \in m.searches }]

\* everything but the modal is left alone
ModalOnly ==
    UNCHANGED << config, onProgress, pair, scored, hook, pc, places,
                 allTacoBells, nStops, iter, routes, seenRoutes,
                 candidateRoutes, topCandidates, i, apiCallCount, bestRoute,
                 bestActualDistance, bestRouteIndex, progress, result,
                 oracleLog, lookupCalls, error >>

ModalInit ==
    /\ config \in PairConfigs
    /\ onProgress = TRUE
    /\ pair = Null
    /\ scored = Null
    /\ hook = Null
    /\ Fresh
    /\ modal = [isOpen |-> FALSE, selectedLocation |-> Null,
                isSearching |-> FALSE, progress |-> Null, error |-> Null,
                isValidTacoBell |-> FALSE, pending |-> Null, searches |-> {},
                started |-> 0, routeFound |-> {}, onCloseCalls |-> {},
                lateRouteFound |-> {}, lateOnClose |-> {}]

\* the parent renders the modal with isOpen = true
OpenModal ==
    /\ modal # Null
    /\ ~modal.isOpen
    /\ modal' = [modal EXCEPT !.isOpen = TRUE]
    /\ ModalOnly

\* the backdrop, the x button or (when not searching) Cancel: onClose()
CloseModal ==
    /\ modal # Null
    /\ modal.isOpen
    /\ modal' = closed(modal)
    /\ ModalOnly

\* LocationSearch calls setSelectedLocation; the selection effect cancels
\* the validation before and starts one for the new location
SelectLocation ==
    /\ modal # Null
    /\ modal.isOpen
    /\ \E location \in Locations :
           modal' = [modal EXCEPT !.selectedLocation = location,
                                  !.isValidTacoBell = FALSE,
                                  !.error = Null,
                                  !.pending = location]
    /\ ModalOnly

\* validateTacoBell(selectedLocation) of the selection effect settles:
\* valid (keeping the location, or replacing it by the validated place,
\* which starts the effect again), not valid, or rejected
ValidationSettles ==
    /\ modal # Null
    /\ modal.pending # Null
    /\ \E outcome \in {"valid", "updated", "invalid", "rejected"} :
           modal' =
               CASE outcome = "valid" ->
                        [modal EXCEPT !.isValidTacoBell = TRUE, !.error = Null,
                                      !.pending = Null]
                 [] outcome = "updated" ->
                        LET tacoBell == CHOOSE l \in Locations : l # modal.pending
                        IN  [modal EXCEPT !.selectedLocation = tacoBell,
                                          !.isValidTacoBell = FALSE,
                                          !.error = Null,
                                          !.pending = tacoBell]
                 [] outcome = "invalid" ->
                        [modal EXCEPT !.isValidTacoBell = FALSE,
                                      !.error = "Please select a Taco Bell location",
                                      !.pending = Null]
                 [] OTHER ->
                        [modal EXCEPT !.isValidTacoBell = FALSE,
                                      !.error = "Error validating location. Please try again.",
                                      !.pending = Null]
    /\ ModalOnly

\* handleSearch up to its first await (the Create Route button is shown
\* while the modal is open and enabled for a valid selection, not searching)
HandleSearch ==
    /\ modal # Null
    /\ modal.isOpen
    /\ modal.selectedLocation # Null
    /\ modal.isValidTacoBell
    /\ ~modal.isSearching
    /\ modal.started < MaxSearches
    /\ modal' = [modal EXCEPT !.isSearching = TRUE,
                              !.error = Null,
                              !.progress = Null,
                              !.started = @ + 1,
                              !.searches = @ \cup { [n |-> modal.started + 1,
                                                      stage |-> "validating",
                                                      closedSince |-> FALSE] }]
    /\ ModalOnly

\* handleSearch: await validateTacoBell(selectedLocation) returns; a place
\* that is not valid, or a rejection, ends the call through finally
SearchValidationReturns ==
    /\ modal # Null
    /\ \E s \in modal.searches, outcome \in {"valid", "invalid", "rejected"} :
           /\ s.stage = "validating"
           /\ modal' =
                  CASE outcome = "valid" ->
                           [modal EXCEPT !.searches = (@ \ {s}) \cup
                                             { [s EXCEPT !.stage = "finding"] }]
                    [] outcome = "invalid" ->
                           [modal EXCEPT !.error = "Selected location is not a valid Taco Bell",
                                         !.isSearching = FALSE,
                                         !.searches = @ \ {s}]
                    [] OTHER ->
                           [modal EXCEPT !.error = "An unexpected error occurred",
                                         !.isSearching = FALSE,
                                         !.searches = @ \ {s}]
    /\ ModalOnly

\* the progress callback handed to findOptimalRoute: setProgress(prog)
SearchProgress ==
    /\ modal # Null
    /\ \E s \in modal.searches, status \in {"finding_nearby", "verifying"} :
           /\ s.stage = "finding"
           /\ modal' = [modal EXCEPT !.progress = status]
    /\ ModalOnly

\* handleSearch: await findOptimalRoute(...) returns a route:
\* onRouteFound(result.route); onClose(); finally setIsSearching(false)
SearchFindsRoute ==
    /\ modal # Null
    /\ \E s \in modal.searches :
           /\ s.stage = "finding"
           /\ LET called == [modal EXCEPT
                                !.routeFound = @ \cup {s.n},
                                !.onCloseCalls = @ \cup {s.n},
                                !.lateRouteFound = IF s.closedSince THEN @ \cup {s.n} ELSE @,
                                !.lateOnClose = IF s.closedSince THEN @ \cup {s.n} ELSE @,
                                !.searches = @ \ {s}]
              IN  modal' = [(IF modal.isOpen THEN closed(called) ELSE called)
                                EXCEPT !.isSearching = FALSE]
    /\ ModalOnly

\* handleSearch: findOptimalRoute returns without a route, or throws:
\* setError(...); finally setIsSearching(false)
SearchFindsNothing ==
    /\ modal # Null
    /\ \E s \in modal.searches, message \in {"No valid route found", "An unexpected error occurred"} :
           /\ s.stage = "finding"
           /\ modal' = [modal EXCEPT !.error = message,
                                     !.isSearching = FALSE,
                                     !.searches = @ \ {s}]
    /\ ModalOnly

ModalNext ==
    \/ OpenModal
    \/ CloseModal
    \/ SelectLocation
    \/ ValidationSettles
    \/ HandleSearch
    \/ SearchValidationReturns
    \/ SearchProgress
    \/ SearchFindsRoute
    \/ SearchFindsNothing

ModalSpec == ModalInit /\ [][ModalNext]_vars


-----------------------------------------------------------------------------
(* Vocabulary of the properties *)

Done == pc = "done"

Last(s) == s[Len(s)]

\* the oracle call logged at position k returned a route list that is not empty
HasRoute(k) ==
    /\ oracleLog[k].response # Thrown
    /\ Len(oracleLog[k].response.routes) > 0

\* the distance the oracle reported in the call logged at position k
VerifiedDistance(k) == totalDistanceOf(oracleLog[k].response)

InBand(d) == d >= config.minDistanceMeters /\ d <= config.maxDistanceMeters

\* the oracle call logged at position k verified its candidate in range
VerifiedInRange(k) == HasRoute(k) /\ InBand(VerifiedDistance(k))

NoVerifiedInRange == \A k \in 1..Len(oracleLog) : ~VerifiedInRange(k)

\* the lookup returned, with fewer valid stops than config.minTacoBells
InsufficientCase ==
    /\ places # Null
    /\ Cardinality({k \in 1..Len(places) : places[k].isTacoBell})
           < config.minTacoBells

\* the shape of a verified success: the fields of the object returned and
\* the status of the last notification
VerifiedShape == << {"success", "route", "totalDistance"}, "complete" >>

ResultShape == << DOMAIN result, Last(progress).status >>

-----------------------------------------------------------------------------
(* C1: the number of calculateRoute invocations of one findOptimalRoute   *)
(* invocation never exceeds config.maxApiCalls (50 when unset), whatever  *)
(* mix of returns, empty responses and thrown errors the oracle produces. *)
C1_OracleCallsWithinBudget == Len(oracleLog) <= maxApiCalls(config)

C3_FallbackIsBestScoredOverall ==
    (Done /\ Len(candidateRoutes) > 0 /\ NoVerifiedInRange) =>
        /\ result.success = TRUE
        /\ \E k \in 1..Len(candidateRoutes) :
              /\ result.route = routeWithoutDuplicate(candidateRoutes[k].stops)
              /\ result.totalDistance = candidateRoutes[k].totalDistance
              /\ result.totalDistance = routeDistance(candidateRoutes[k].stops)
              /\ \A j \in 1..Len(candidateRoutes) :
                    candidateRoutes[k].score <= candidateRoutes[j].score

(* C4: a fallback success differs from a verified success in the fields of *)
(* the result or in the status of the last notification.                   *)
C4_FallbackDistinguishable ==
    (Done /\ result.success = TRUE) =>
        IF bestRoute # Null THEN ResultShape = VerifiedShape
        ELSE ResultShape # VerifiedShape

(* C5: a verified success reports a totalDistance within                   *)
(* [minDistanceMeters, maxDistanceMeters] that is the sum of the legs the  *)
(* oracle returned for the very candidate whose route is returned.         *)
C5_VerifiedDistanceInBand ==
    (Done /\ result.success = TRUE /\ bestRoute # Null) =>
        /\ InBand(result.totalDistance)
        /\ \E k \in 1..Len(oracleLog) :
              LET candidate == topCandidates[oracleLog[k].index + 1]
              IN  /\ HasRoute(k)
                  /\ oracleLog[k].request = requestOf(candidate)
                  /\ result.route = routeWithoutDuplicate(candidate.stops)
                  /\ result.totalDistance
                         = SumSeq(oracleLog[k].response.routes[1].legs)

C5_Witness ==
    /\ Done /\ result.success = TRUE /\ bestRoute # Null
    /\ result.totalDistance = 51000
    /\ Len(result.route) = 3
    /\ \E k \in 1..Len(oracleLog) :
          HasRoute(k) /\ ~InBand(VerifiedDistance(k))

(* C6: the route of every success starts with the start stop, holds no     *)
(* identifier twice and has between minTacoBells and maxTacoBells stops.   *)
C6_RouteOpenDistinctWithinCounts ==
    (Done /\ result.success = TRUE) =>
        /\ Len(result.route) >= config.minTacoBells
        /\ Len(result.route) <= config.maxTacoBells
        /\ result.route[1] = startTacoBell
        /\ \A a, b \in 1..Len(result.route) :
              a # b => result.route[a] # result.route[b]

(* C7: a thrown oracle call does not end verification: the candidates are  *)
(* submitted rank by rank whatever the earlier calls did, the loop ends    *)
(* only at the end of the list or of the budget, a failed call never       *)
(* yields a failed result, and a later candidate verified in range is      *)
(* returned as the verified result.                                        *)
C7_OracleFailureDoesNotAbort ==
    /\ \A k \in 1..Len(oracleLog) : oracleLog[k].index = k - 1
    /\ (pc = "verifying") => i = Len(oracleLog)
    /\ (Done /\ oracleLog # << >>) =>
          /\ Len(oracleLog) = Len(topCandidates)
                \/ ~budgetLeft(apiCallCount, config)
          /\ result.success = TRUE
          /\ (\E b \in 1..Len(oracleLog) : VerifiedInRange(b)) =>
                /\ bestRoute # Null
                /\ \E b \in 1..Len(oracleLog) :
                      /\ VerifiedInRange(b)
                      /\ result.totalDistance = VerifiedDistance(b)
                      /\ result.route = routeWithoutDuplicate(
                             topCandidates[oracleLog[b].index + 1].stops)

C7_Witness ==
    /\ Done /\ Len(oracleLog) >= 2
    /\ oracleLog[1].response = Thrown
    /\ VerifiedInRange(2)
    /\ result.success = TRUE
    /\ result.totalDistance = VerifiedDistance(2)

(* C8: once generation has produced a candidate the invocation cannot end  *)
(* in a failed result, whatever the oracle does and whatever the budget.   *)
C8_SuccessOnceGenerated ==
    (Len(candidateRoutes) > 0) =>
        /\ pc # "done" \/ result.success = TRUE
        /\ result = NoResult \/ result.success = TRUE

C8_Witness ==
    /\ Done /\ Len(candidateRoutes) > 0 /\ config.maxApiCalls = 2
    /\ \E a, b, c \in 1..Len(oracleLog) :
          /\ oracleLog[a].response = Thrown
          /\ oracleLog[b].response = NoRoutes
          /\ HasRoute(c) /\ ~InBand(VerifiedDistance(c))
    /\ result.success = TRUE

(* C9: the candidates submitted to verification are the lowest-scored      *)
(* candidates of the merged list, in ascending score order.                *)
C9_TopCandidatesAreLowestScored ==
    (pc \in {"verifying", "done"} /\ Len(topCandidates) > 0) =>
        /\ \A a, b \in 1..Len(topCandidates) :
              a < b => topCandidates[a].score <= topCandidates[b].score
        /\ \A k \in 1..Len(candidateRoutes) :
              k > Len(topCandidates) =>
                 \A t \in 1..Len(topCandidates) :
                    topCandidates[t].score <= candidateRoutes[k].score

(* C10: the verified route returned is, among the candidates the oracle    *)
(* verified in range, one whose distance is closest to the target.         *)
C10_BestIsClosestToTarget ==
    (Done /\ result.success = TRUE /\ bestRoute # Null) =>
        \A k \in 1..Len(oracleLog) :
            VerifiedInRange(k) =>
                Abs(result.totalDistance - targetKm * 1000)
                    <= Abs(VerifiedDistance(k) - targetKm * 1000)

\* the stage a status tag belongs to, and the terminal notifications
Stage == [searching_tacobells |-> 1, validating |-> 2, finding_route |-> 3,
          complete |-> 4, error |-> 4]

Terminals ==
    {k \in 1..Len(progress) : progress[k].status \in {"complete", "error"}}

(* C11: the status tags passed to onProgress only move forward           *)
(* (searching_tacobells, then finding_route, then a terminal tag): no     *)
(* tag of an earlier stage follows a tag of a later stage, no terminal    *)
(* notification is emitted while the invocation runs, and when it has     *)
(* returned exactly one (complete or error) was emitted, as the last one. *)
C11_ProgressMovesForward ==
    /\ \A a, b \in 1..Len(progress) :
          a < b => Stage[progress[a].status] <= Stage[progress[b].status]
    /\ Terminals = IF Done THEN {Len(progress)} ELSE {}
    /\ Done => Len(progress) >= 1

C11_Witness ==
    /\ Done /\ Len(progress) >= 6
    /\ progress[1].status = "searching_tacobells"
    /\ progress[2].status = "searching_tacobells"
    /\ progress[3].status = "finding_route"
    /\ progress[Len(progress) - 1].message[1] = "Verifying"
    /\ Last(progress).status = "complete"

(* C12: provided every external call returns or fails, every invocation   *)
(* of findOptimalRoute eventually returns, and it returns one result: the  *)
(* loops of the generator and the verification loop terminate, and a       *)
(* result once returned is never replaced.                                 *)
C12_EventuallyReturnsOneResult ==
    /\ <>[](Done /\ result # NoResult)
    /\ [][result # NoResult => result' = result]_vars

C12_Witness ==
    /\ Done /\ result # NoResult
    /\ Len(candidateRoutes) >= 3
    /\ Len(oracleLog) >= 3
    /\ \E k \in 1..Len(oracleLog) : oracleLog[k].response = Thrown

\* C13: when the nearby lookup fails, the lookup has been invoked exactly
\* once, the invocation is over, and the result is success:false carrying
\* the message of the error the lookup threw, unchanged.
LookupFailed == error \in LookupErrors

C13_LookupFailurePropagatesOnce ==
    LookupFailed =>
        /\ lookupCalls = 1
        /\ Done
        /\ result = [success |-> FALSE, error |-> error.message]
        /\ places = Null /\ oracleLog = << >>

\* the lookup failed with the TypeError of fetch and the caller got its text
C13_Witness ==
    /\ LookupFailed
    /\ error.message = FetchError
    /\ result.success = FALSE /\ result.error = FetchError
    /\ lookupCalls = 1

\* the for loop over the stop counts is over and nothing was pushed
NoCandidatesCase == nStops > config.maxTacoBells /\ candidateRoutes = << >>

InvalidConfig(cfg) ==
    \/ cfg.minDistanceMeters > cfg.maxDistanceMeters
    \/ cfg.minTacoBells > cfg.maxTacoBells
    \/ \E f \in {"minDistanceMeters", "maxDistanceMeters",
                  "minTacoBells", "maxTacoBells"} : cfg[f] <= 0

\* C15: an invalid config is rejected at the start of findOptimalRoute:
\* neither the nearby lookup nor the oracle is ever called for it, and the
\* result is a failure.
C15_InvalidConfigRejectedFirst ==
    InvalidConfig(config) =>
        /\ lookupCalls = 0
        /\ oracleLog = << >>
        /\ Done => result.success = FALSE

\* a closed loop of n stops from start: n + 1 elements, start first and
\* last, the elements between pairwise different and different from start
ClosedLoopOf(stops, start, n) ==
    /\ Len(stops) = n + 1
    /\ stops[1] = start /\ stops[Len(stops)] = start
    /\ \A a, b \in 2..(Len(stops) - 1) :
          /\ stops[a] # start
          /\ a # b => stops[a] # stops[b]

\* C16: every candidate that generateCandidateRoutes(start, pool, target,
\* nStops, iterations) has pushed, and so every candidate it returns, is a
\* closed loop of nStops stops: length nStops + 1, start first and last,
\* interior identifiers pairwise distinct and none equal to the start's.
C16_CandidatesAreClosedLoops ==
    pc = "iterating" =>
        \A k \in 1..Len(routes) :
            ClosedLoopOf(routes[k].stops, startTacoBell, nStops)

\* the second of two invocations with the same arguments
SecondRun == pair # Null /\ pair.run = 2

\* C17: two calls of the generator with identical inputs (start, pool,
\* target, stop count, iterations) return identical ranked candidate lists.
\* The generator has no parameter for a random source, so identical inputs
\* are all a caller can arrange: once the second invocation has generated
\* for every stop count from the same pool, its merged candidate list is
\* the one of the first invocation.
C17_SameInputsSameCandidates ==
    (/\ SecondRun
     /\ nStops > config.maxTacoBells
     /\ allTacoBells = pair.first.allTacoBells) =>
        candidateRoutes = pair.first.candidateRoutes

\* the generator of the second invocation returned what it returned to the
\* first, as it does when Math.random yields the same values
SameRandomChoices ==
    nStops > config.maxTacoBells =>
        candidateRoutes = pair.first.candidateRoutes

\* s is an initial part of t
IsPrefix(s, t) == Len(s) <= Len(t) /\ s = SubSeq(t, 1, Len(s))

\* C18: an invocation without onProgress that meets the same lookup
\* result, the same random choices and the same oracle responses as an
\* invocation with onProgress makes the same external calls in the same
\* order (at every moment an initial part of them, at its return all of
\* them) and returns the same result.
C18_ProgressDoesNotSteer ==
    (SecondRun /\ SameRandomChoices) =>
        /\ lookupCalls <= pair.first.lookupCalls
        /\ IsPrefix(oracleLog, pair.first.oracleLog)
        /\ Done =>
              /\ result = pair.first.result
              /\ lookupCalls = pair.first.lookupCalls
              /\ oracleLog = pair.first.oracleLog

\* both invocations verified the same two or more candidates and returned
\* the same route; the second one sent no notification
C18_Witness ==
    /\ SecondRun /\ SameRandomChoices /\ Done
    /\ onProgress = FALSE /\ progress = << >>
    /\ Len(candidateRoutes) >= 2
    /\ Len(oracleLog) >= 2 /\ oracleLog = pair.first.oracleLog
    /\ result.success /\ result = pair.first.result

\* both loops have been scored
BothScored == scored # Null /\ scored.even # Null /\ scored.uneven # Null

\* C19: a closed loop with all legs equal whose estimated road distance is
\* exactly the target never gets a higher score from scoreRoute than the
\* same loop with one leg doubled and another halved.
C19_EvenLoopScoresNoWorse ==
    BothScored => scored.even.score <= scored.uneven.score

\* a four-leg loop: the even one scores 0, the uneven one is longer than
\* the target and scores more
C19_Witness ==
    /\ BothScored
    /\ scored.input.n = 4
    /\ scored.even.score = 0
    /\ scored.uneven.totalDistance > scored.even.totalDistance
    /\ scored.uneven.score > 0 /\ scored.uneven.score < Infinity

\* C20: the pool returned by findTacoBells never holds two stops with the
\* same placeId, also when the lookup returned a place_id more than once.
C20_PoolHasNoDuplicateIds ==
    \A a, b \in 1..Len(allTacoBells) :
        a # b => allTacoBells[a] # allTacoBells[b]

\* the notifications sent from inside the verification loop
VerifyingNotifications ==
    {k \in 1..Len(progress) : progress[k].message[1] = "Verifying"}

\* C21: every oracle invocation of the verification loop, returned or
\* thrown, is followed by a progress notification before the next oracle
\* invocation or the terminal notification: whenever the loop is between
\* two invocations, or over, it has notified once per invocation made.
C21_EveryOracleCallIsReported ==
    Cardinality(VerifyingNotifications) = Len(oracleLog)

\* a route of at least one interior stop that ends where it starts
IsClosedLoop(stops) == Len(stops) >= 3 /\ stops[1] = stops[Len(stops)]

\* C22: for every generated candidate that is a closed loop, the
\* loop-closure measure scoreRoute adds to the score (loopnessPenalty) is
\* the distance from the last interior stop back to the start, and so is
\* not zero.
C22_LoopTermIsLastLegHome ==
    \A k \in 1..Len(candidateRoutes) :
        LET stops == candidateRoutes[k].stops
        IN  IsClosedLoop(stops) =>
                /\ loopnessPenalty(stops)
                       = haversineDistance(stops[Len(stops) - 1], startTacoBell)
                /\ loopnessPenalty(stops) > 0

\* C23: the candidates one generateCandidateRoutes call has accepted, and
\* so the list it returns, never hold two routes with the same set of
\* interior stop identifiers, whatever the visiting order; the signature
\* of every accepted route is recorded, so a later attempt with the same
\* signature is rejected.
C23_OneCandidatePerSignature ==
    pc = "iterating" =>
        /\ \A a, b \in 1..Len(routes) :
              a # b => routeSignature(routes[a].stops)
                          # routeSignature(routes[b].stops)
        /\ \A k \in 1..Len(routes) :
              routeSignature(routes[k].stops) \in seenRoutes
        /\ Cardinality(seenRoutes) <= iter

\* three-stop loops: more attempts than signatures (an attempt repeated a
\* signature and was rejected) and two accepted candidates
C23_Witness ==
    /\ pc = "iterating"
    /\ nStops = 3
    /\ iter > Cardinality(seenRoutes)
    /\ Len(routes) = 2

\* the generator has been called for a stop count for which it throws
\* (fewer than n - 1 stops near the start): the loop is past n, or the
\* invocation ended at n
SkippedStopCount ==
    \E n \in config.minTacoBells..config.maxTacoBells :
        /\ n < nStops \/ (n = nStops /\ Done)
        /\ Len(nearbyOf(startTacoBell, allTacoBells)) < n - 1

\* C24: when the generator could not produce candidates for a stop count,
\* the search does not fail for that reason: the only failure left is "no
\* candidates at all", the loop goes through every stop count, and when
\* other stop counts produced candidates they are verified and one of them
\* is returned.
C24_SparseStopCountIsSkipped ==
    SkippedStopCount =>
        /\ error \in {Null, JsError(NoCandidatesError)}
        /\ Done => nStops > config.maxTacoBells
        /\ (Done /\ candidateRoutes # << >>) =>
              /\ oracleLog # << >>
              /\ result.success
              /\ \E k \in 1..Len(candidateRoutes) :
                    result.route
                       = routeWithoutDuplicate(candidateRoutes[k].stops)

\* two-stop candidates were generated, three stops were not possible, and a
\* verified two-stop route was returned
C24_Witness ==
    /\ Done /\ SkippedStopCount
    /\ candidateRoutes # << >>
    /\ bestRoute # Null
    /\ result.success /\ Len(result.route) = 2

\* scores never go down along the list
ScoresAscend(cands) ==
    \A a, b \in 1..Len(cands) : a < b => cands[a].score <= cands[b].score

\* the list one generateCandidateRoutes call returned, seen in the step in
\* which findOptimalRoute pushes it onto candidateRoutes
ReturnedAscending ==
    (pc = "iterating" /\ pc' = "generating") =>
        LET returned == SubSeq(candidateRoutes', Len(candidateRoutes) + 1,
                               Len(candidateRoutes'))
        IN  /\ candidateRoutes' = candidateRoutes \o returned
            /\ Len(returned) = Len(routes)
            /\ Range(returned) = Range(routes)
            /\ ScoresAscend(returned)

\* the verifier takes the front of the list as the best: the top
\* candidates are its first entries, the oracle is asked about them in
\* list order, and the fallback returns the first one
FrontIsTakenAsBest ==
    topCandidates # << >> =>
        /\ topCandidates = SubSeq(candidateRoutes, 1, Len(topCandidates))
        /\ \A k \in 1..Len(oracleLog) :
              oracleLog[k].request = requestOf(topCandidates[k])
        /\ (Done /\ bestRoute = Null) =>
              result.route = routeWithoutDuplicate(topCandidates[1].stops)

\* C25: generateCandidateRoutes returns its candidates in non-decreasing
\* score order (lowest, that is best, first), and the verifier uses the
\* same convention: it takes the front of the list first.
C25_LowerScoreFirst ==
    /\ [][ReturnedAscending]_vars
    /\ []FrontIsTakenAsBest

\* a returned list of two candidates with different scores reached the
\* verifier, which asked the oracle about both, lower score first
C25_Witness ==
    /\ Done
    /\ Len(topCandidates) >= 2
    /\ topCandidates[1].score < topCandidates[2].score
    /\ Len(topCandidates[1].stops) = Len(topCandidates[2].stops)
    /\ Len(oracleLog) >= 2

\* C26: whatever maxApiCalls is, one invocation makes at most 5 oracle
\* invocations, one per top candidate and in rank order: the k-th
\* invocation is for the candidate of rank k, every invocation made has
\* settled (returned or thrown), and the loop index stands just behind the
\* last one.
C26_AtMostFiveCallsInRankOrder ==
    /\ Len(oracleLog) <= TopN
    /\ Len(oracleLog) <= Len(topCandidates)
    /\ \A k \in 1..Len(oracleLog) :
          /\ oracleLog[k].index = k - 1
          /\ oracleLog[k].request = requestOf(topCandidates[k])
          /\ oracleLog[k].response \in OracleResponses \cup {Thrown}
    /\ pc = "verifying" => i = Len(oracleLog)

\* six candidates and a budget of 50: the oracle was asked five times
C26_Witness ==
    /\ Done
    /\ maxApiCalls(config) = DefaultMaxApiCalls
    /\ Len(candidateRoutes) > TopN
    /\ Len(oracleLog) = TopN
    /\ \E k \in 1..TopN : oracleLog[k].response = Thrown

\* no calculateRoute request is in flight and the recalculate effect has
\* run for the current points
HookSettled == hook # Null /\ hook.inFlight = {} /\ ~hook.changed

\* C27: once no route calculation is in flight, routeData is null when
\* start or end is unset, and otherwise is null (a failed calculation) or
\* the result computed for the current startPoint, endPoint and waypoints:
\* no response for superseded inputs, or arriving after clearRoute, stays
\* displayed.
C27_RouteDataIsForCurrentPoints ==
    HookSettled =>
        IF hook.startPoint = Null \/ hook.endPoint = Null
        THEN hook.routeData = Null
        ELSE hook.routeData \in
                 {Null, RouteRequest(hook.startPoint, hook.endPoint,
                                     hook.waypoints)}

\* C28: isCalculating is true whenever at least one route calculation is
\* in flight, also when calculations overlap.
C28_CalculatingWhileInFlight ==
    (hook # Null /\ hook.inFlight # {}) => hook.isCalculating

\* C29: after any sequence of addWaypoint, removeWaypoint,
\* reorderWaypoints and loadAutoGeneratedRoute calls the waypoint at array
\* index i has order i.
C29_OrderIsIndex ==
    hook # Null =>
        \A k \in 1..Len(hook.waypoints) : hook.waypoints[k].order = k - 1

\* C30: once the modal has been closed while a search is in flight, that
\* search never delivers a route through onRouteFound and never calls
\* onClose again
C30_ClosedSearchStaysSilent ==
    modal # Null => modal.lateRouteFound = {} /\ modal.lateOnClose = {}

====
